---- MODULE Spec2Model ----
(***************************************************************************)
(* Model of the incremental history store of canva-vue                     *)
(* (src/src/stores/history.ts) and of the HistoryService wrappers          *)
(* (src/src/services/history/HistoryService.ts).                           *)
(*                                                                         *)
(* An element is a function from field names to values.  A field whose    *)
(* value is Undef is an own property holding `undefined`: JSON.stringify   *)
(* drops it, Object.keys lists it.  Objects list their keys in one         *)
(* canonical order, so JSON.stringify equality is equality of the          *)
(* Undef-free restrictions, except in the "keyorder" document, whose       *)
(* elements carry the order of their keys in the entry keyOrder: it is     *)
(* part of what JSON.stringify writes and of what a copy keeps, and it is  *)
(* not a property Object.keys lists.  A JavaScript Map is a sequence of    *)
(* <<key, value>> pairs in insertion order.  A nullable value is a set of  *)
(* at most one element.  Date.now() timestamps are left out: nothing       *)
(* reads them.                                                             *)
(***************************************************************************)
EXTENDS Integers, Sequences, FiniteSets, TLC

\* ---------------------------------------------------------------- bounds
\* history.ts:48 sets compressThreshold to 100 and history.ts:47 maxSize to
\* 200; the model keeps the 1:2 ratio at a size TLC can enumerate.
compressThreshold == 2
maxSize == 2 * compressThreshold
\* deepest nesting of beginBatch the model explores
MaxDepth == 2

Descs == {"unknown"}
Undef == "undefined"

\* ------------------------------------------------------- nullable values
Null == {}
Some(v) == {v}
IsNull(o) == o = {}
Get(o) == CHOOSE v \in o : TRUE

\* --------------------------------------------------------------- elements
\* Element of src/src/cores/types/element.ts, cut down to id, x and the
\* optional fill, plus the zIndex useElementsCreate.ts:32 gives a new
\* element.  An editing session works on one of two documents: "layers"
\* holds elements a and b, which are added, removed and reordered; "fields"
\* holds element a, whose x changes and whose fill comes and goes.
Documents == {"layers", "fields"}
LayerElements == {[id |-> "a", x |-> "0", zIndex |-> "0"],
                  [id |-> "b", x |-> "0", zIndex |-> "1"]}
FieldElements == [id : {"a"}, x : {"0", "1"}]
                   \cup [id : {"a"}, x : {"0"}, fill : {"red"}]
\* A third document, "keyorder", holds element a with its x and fill
\* properties written in either order, as { id, x, fill } or { id, fill, x }.
KeyOrderElements ==
  [id : {"a"}, x : {"0", "1"}, fill : {"red"}, keyOrder : {"x,fill", "fill,x"}]
Elements(doc) ==
  CASE doc = "layers" -> LayerElements
    [] doc = "keyorder" -> KeyOrderElements
    [] OTHER -> FieldElements
\* the names Object.keys(obj) lists
ObjectKeys(obj) == DOMAIN obj \ {"keyOrder"}

RECURSIVE UniqueIds(_)
UniqueIds(c) ==
  IF Len(c) <= 1 THEN TRUE
  ELSE /\ \A i \in 2..Len(c) : c[i].id # c[1].id
       /\ UniqueIds(Tail(c))

\* the snapshots a caller can hand to pushSnapshot: unique by id
Collections(doc) ==
  LET ids == {e.id : e \in Elements(doc)}
      seqs == UNION {[1..k -> Elements(doc)] : k \in 0..Cardinality(ids)}
  IN {c \in seqs : UniqueIds(c)}

\* obj[key], `undefined` when the object has no such property
Val(e, k) == IF k \in DOMAIN e THEN e[k] ELSE Undef

\* JSON.parse(JSON.stringify(obj)): properties holding undefined are dropped
JsonObj(e) == [k \in {f \in DOMAIN e : e[f] # Undef} |-> e[k]]
\* JSON.parse(JSON.stringify(array))
JsonArr(c) == [i \in 1..Len(c) |-> JsonObj(c[i])]

\* JSON.stringify(a) === JSON.stringify(b), the comparison the code uses
SameJson(a, b) == JsonArr(a) = JsonArr(b)

\* Object.assign(target, source)
ObjectAssign(t, s) ==
  [k \in (DOMAIN t) \cup (DOMAIN s) |-> IF k \in DOMAIN s THEN s[k] ELSE t[k]]

\* ------------------------------------------------------------ Map<K, V>
MapHas(m, k) == \E i \in 1..Len(m) : m[i][1] = k
MapIdx(m, k) == CHOOSE i \in 1..Len(m) : m[i][1] = k
MapGet(m, k) == m[MapIdx(m, k)][2]
MapSet(m, k, v) ==
  IF MapHas(m, k) THEN [m EXCEPT ![MapIdx(m, k)] = <<k, v>>]
  ELSE Append(m, <<k, v>>)
MapDelete(m, k) == SelectSeq(m, LAMBDA p : p[1] # k)
MapValues(m) == [i \in 1..Len(m) |-> m[i][2]]

RECURSIVE MapOfElements(_)
\* new Map(arr.map(e => [e.id, e]))
MapOfElements(c) ==
  IF c = <<>> THEN <<>>
  ELSE LET n == Len(c)
       IN MapSet(MapOfElements(SubSeq(c, 1, n - 1)), Val(c[n], "id"), c[n])

ElementIds(c) == [i \in 1..Len(c) |-> Val(c[i], "id")]

\* ---------------------------------------------------------------- records
isSnapshot(record) ==
  /\ "isSnapshot" \in DOMAIN record
  /\ record.isSnapshot = TRUE

SnapshotRecord(snapshot, desc) ==
  [snapshot |-> snapshot, changedIds |-> ElementIds(snapshot),
   desc |-> desc, isSnapshot |-> TRUE]

\* ------------------------------------------------------------------ diff
\* extractChangedFields with a fault: only the keys of obj are looked at
extractChangedFields_ownKeysOnly(obj, reference) ==
  LET keys == ObjectKeys(obj)
      changed == {k \in keys : k # "id" /\ Val(obj, k) # Val(reference, k)}
  IN [k \in {"id"} \cup changed |-> Val(obj, k)]

extractChangedFields(obj, reference) ==
  LET keys == ObjectKeys(obj) \cup ObjectKeys(reference)
      changed == {k \in keys : k # "id" /\ Val(obj, k) # Val(reference, k)}
  IN [k \in {"id"} \cup changed |-> Val(obj, k)]

RECURSIVE DiffBefore(_, _, _)
\* first loop of generateDiffRecord: removals and modifications
DiffBefore(before, afterMap, n) ==
  IF n = 0 THEN <<>>
  ELSE LET rest == DiffBefore(before, afterMap, n - 1)
           el == before[n]
       IN IF ~MapHas(afterMap, Val(el, "id"))
            THEN MapSet(rest, Val(el, "id"), [before |-> Some(el), after |-> Null])
          ELSE LET afterEl == MapGet(afterMap, Val(el, "id"))
               IN IF JsonObj(el) # JsonObj(afterEl)
                    THEN MapSet(rest, Val(el, "id"),
                           [before |-> Some(extractChangedFields(el, afterEl)),
                            after |-> Some(extractChangedFields(afterEl, el))])
                  ELSE rest

RECURSIVE DiffAfter(_, _, _, _)
\* second loop of generateDiffRecord: additions
DiffAfter(changes, after, beforeMap, n) ==
  IF n = 0 THEN changes
  ELSE LET rest == DiffAfter(changes, after, beforeMap, n - 1)
           el == after[n]
       IN IF ~MapHas(beforeMap, Val(el, "id"))
            THEN MapSet(rest, Val(el, "id"), [before |-> Null, after |-> Some(el)])
          ELSE rest

generateDiffRecord(before, after, desc) ==
  LET beforeMap == MapOfElements(before)
      afterMap == MapOfElements(after)
      changes == DiffAfter(DiffBefore(before, afterMap, Len(before)),
                           after, beforeMap, Len(after))
  IN [changes |-> changes,
      changedIds |-> [i \in 1..Len(changes) |-> changes[i][1]],
      desc |-> desc]

RECURSIVE ApplyChanges(_, _, _)
\* the loop of applyDiffRecord over diff.changes
ApplyChanges(elementMap, changes, n) ==
  IF n = 0 THEN elementMap
  ELSE LET m == ApplyChanges(elementMap, changes, n - 1)
           id == changes[n][1]
           change == changes[n][2]
       IN IF ~IsNull(change.after) /\ IsNull(change.before)
            THEN MapSet(m, id, Get(change.after))
          ELSE IF ~IsNull(change.before) /\ IsNull(change.after)
            THEN MapDelete(m, id)
          ELSE IF ~IsNull(change.before) /\ ~IsNull(change.after)
            THEN IF MapHas(m, id)
                   THEN MapSet(m, id, ObjectAssign(MapGet(m, id), Get(change.after)))
                 ELSE m
          ELSE m

applyDiffRecord(snapshot, diff) ==
  LET result == JsonArr(snapshot)
      elementMap == MapOfElements(result)
  IN MapValues(ApplyChanges(elementMap, diff.changes, Len(diff.changes)))

\* -------------------------------------------------------- reconstruction
\* indices of the model are the 0-based indices of the code: stack[i] of the
\* code is stk[i + 1]
At(stk, i) == stk[i + 1]
InRange(stk, i) == i >= 0 /\ i < Len(stk)

\* the index the backward scan of rebuildFullSnapshot stops at, -1 if none
SnapshotIndexAtOrBefore(stk, index) ==
  LET found == {i \in 0..index : InRange(stk, i) /\ isSnapshot(At(stk, i))}
  IN IF found = {} THEN -1 ELSE CHOOSE i \in found : \A j \in found : j <= i

RECURSIVE Replay(_, _, _, _)
\* apply the diffs of stack[from..to] (0-based, inclusive) to snapshot
Replay(stk, snapshot, from, to) ==
  IF to < from THEN snapshot
  ELSE LET prev == Replay(stk, snapshot, from, to - 1)
       IN IF InRange(stk, to) /\ ~isSnapshot(At(stk, to))
            THEN applyDiffRecord(prev, At(stk, to))
          ELSE prev

\* rebuildFullSnapshot with this.stack and this.index as parameters
RebuildAt(stk, index) ==
  IF index < 0 THEN <<>>
  ELSE LET snapshotIndex == SnapshotIndexAtOrBefore(stk, index)
       IN IF snapshotIndex < 0 THEN <<>>
          ELSE Replay(stk, JsonArr(At(stk, snapshotIndex).snapshot),
                      snapshotIndex + 1, index)

rebuildFullSnapshot(s) == RebuildAt(s.stack, s.index)

\* ------------------------------------------------------------ operations
\* Array.prototype.slice(start) and slice(0, end)
SliceFrom(stk, start) ==
  LET n == Len(stk)
      from == IF start < 0 THEN (IF n + start < 0 THEN 0 ELSE n + start)
              ELSE start
  IN SubSeq(stk, from + 1, n)
SliceTo(stk, end) == SubSeq(stk, 1, IF end > Len(stk) THEN Len(stk) ELSE end)

\* Math.ceil(this.maxSize * 0.5)
keepCount == (maxSize + 1) \div 2

\* MergedSnapshot with a fault: the merged prefix is the base snapshot alone, the
\* diffs after it are not applied
MergedSnapshot_noReplay(stk, removeCount) ==
  LET found == SnapshotIndexAtOrBefore(stk, removeCount - 1)
      firstIsSnapshot == InRange(stk, 0) /\ isSnapshot(At(stk, 0))
  IN IF found >= 0 THEN JsonArr(At(stk, found).snapshot)
     ELSE IF firstIsSnapshot THEN JsonArr(At(stk, 0).snapshot)
     ELSE <<>>

\* baseSnapshot of compressHistory after its two loops: the last snapshot
\* before removeCount (else the first record, else []), with the diffs
\* stack[mergeEndIndex .. removeCount - 1] applied
MergedSnapshot(stk, removeCount) ==
  LET found == SnapshotIndexAtOrBefore(stk, removeCount - 1)
      firstIsSnapshot == InRange(stk, 0) /\ isSnapshot(At(stk, 0))
      baseSnapshot ==
        IF found >= 0 THEN JsonArr(At(stk, found).snapshot)
        ELSE IF firstIsSnapshot THEN JsonArr(At(stk, 0).snapshot)
        ELSE <<>>
      mergeEndIndex ==
        IF found >= 0 THEN found + 1
        ELSE IF firstIsSnapshot THEN 1
        ELSE 0
  IN Replay(stk, baseSnapshot, mergeEndIndex, removeCount - 1)

\* compressHistory with a fault: the merged prefix is dropped, no snapshot record
\* takes its place
compressHistory_noCheckpoint(s) ==
  IF Len(s.stack) < compressThreshold THEN s
  ELSE
    LET removeCount == Len(s.stack) - keepCount
    IN [s EXCEPT !.stack = SliceFrom(s.stack, removeCount),
                 !.index = s.index - removeCount]

\* compressHistory with a fault: the merged records are not removed, the
\* snapshot record is put in front of the whole stack
compressHistory_keepsMerged(s) ==
  IF Len(s.stack) < compressThreshold THEN s
  ELSE
    LET removeCount == Len(s.stack) - keepCount
        compressedRecord ==
          SnapshotRecord(MergedSnapshot(s.stack, removeCount), "compressed")
    IN [s EXCEPT !.stack = <<compressedRecord>> \o s.stack,
                 !.index = s.index + 1]

\* compressHistory with a fault: slice(removeCount + 1) drops one record more
compressHistory_dropsExtra(s) ==
  IF Len(s.stack) < compressThreshold THEN s
  ELSE
    LET removeCount == Len(s.stack) - keepCount
        compressedRecord ==
          SnapshotRecord(MergedSnapshot(s.stack, removeCount), "compressed")
    IN [s EXCEPT !.stack = <<compressedRecord>> \o SliceFrom(s.stack, removeCount + 1),
                 !.index = s.index - removeCount]

compressHistory(s) ==
  IF Len(s.stack) < compressThreshold THEN s
  ELSE
    LET removeCount == Len(s.stack) - keepCount
        compressedRecord ==
          SnapshotRecord(MergedSnapshot(s.stack, removeCount), "compressed")
    IN [s EXCEPT !.stack = <<compressedRecord>> \o SliceFrom(s.stack, removeCount),
                 !.index = s.index - (removeCount - 1)]

\* CompressIfOver with a fault: the log is never compressed
CompressIfOver_never(s) == s

\* CompressIfOver with a fault: the trigger is maxSize + compressThreshold
CompressIfOver_late(s) ==
  IF Len(s.stack) > maxSize + compressThreshold THEN compressHistory(s) ELSE s

\* CompressIfOver with a fault: the trigger is >= instead of >
CompressIfOver_atThreshold(s) ==
  IF Len(s.stack) >= compressThreshold THEN compressHistory(s) ELSE s

\* the tail shared by pushSnapshot and endBatch: compress above the threshold
CompressIfOver(s) ==
  IF Len(s.stack) > compressThreshold THEN compressHistory(s) ELSE s

\* TruncateAndAppend with a fault: the cursor is not moved to the new record
TruncateAndAppend_cursorStays(s, record) ==
  LET kept == IF s.index < Len(s.stack) - 1 THEN SliceTo(s.stack, s.index + 1)
              ELSE s.stack
  IN [s EXCEPT !.stack = Append(kept, record)]

\* TruncateAndAppend with a fault: the records after the cursor are kept
TruncateAndAppend_keepsFuture(s, record) ==
  [s EXCEPT !.stack = Append(s.stack, record), !.index = s.index + 1]

\* TruncateAndAppend with a fault: slice(0, index) drops the current record too
TruncateAndAppend_dropsCurrent(s, record) ==
  LET kept == IF s.index < Len(s.stack) - 1 THEN SliceTo(s.stack, s.index)
              ELSE s.stack
  IN [s EXCEPT !.stack = Append(kept, record), !.index = s.index + 1]

\* truncate the records after the cursor, then append
TruncateAndAppend(s, record) ==
  LET kept == IF s.index < Len(s.stack) - 1 THEN SliceTo(s.stack, s.index + 1)
              ELSE s.stack
  IN [s EXCEPT !.stack = Append(kept, record), !.index = s.index + 1]

\* PushAppend with a fault: fullSnapshot is not updated after the append
PushAppend_staleCache(s, snapshot, desc) ==
  LET before == IF ~IsNull(s.fullSnapshot) THEN Get(s.fullSnapshot)
                ELSE rebuildFullSnapshot(s)
      after == JsonArr(snapshot)
      unchanged == s.index >= 0 /\ SameJson(before, after)
      record == IF s.index < 0 THEN SnapshotRecord(JsonArr(snapshot), desc)
                ELSE generateDiffRecord(before, after, desc)
  IN IF unchanged THEN s
     ELSE IF s.batchDepth > 0 THEN [s EXCEPT !.pendingRecord = Some(record)]
     ELSE [TruncateAndAppend(s, record) EXCEPT !.fullSnapshot = Some(before)]

\* pushSnapshot up to and including the update of fullSnapshot
\* PushAppend with a fault: the batch is not looked at, the record is appended
PushAppend_ignoresBatch(s, snapshot, desc) ==
  LET before == IF ~IsNull(s.fullSnapshot) THEN Get(s.fullSnapshot)
                ELSE rebuildFullSnapshot(s)
      after == JsonArr(snapshot)
      unchanged == s.index >= 0 /\ SameJson(before, after)
      record == IF s.index < 0 THEN SnapshotRecord(JsonArr(snapshot), desc)
                ELSE generateDiffRecord(before, after, desc)
  IN IF unchanged THEN s
     ELSE [TruncateAndAppend(s, record) EXCEPT
             !.fullSnapshot = Some(JsonArr(snapshot)),
             !.pendingRecord = IF s.batchDepth > 0 THEN Some(record) ELSE @]

PushAppend(s, snapshot, desc) ==
  LET before == IF ~IsNull(s.fullSnapshot) THEN Get(s.fullSnapshot)
                ELSE rebuildFullSnapshot(s)
      after == JsonArr(snapshot)
      unchanged == s.index >= 0 /\ SameJson(before, after)
      record == IF s.index < 0 THEN SnapshotRecord(JsonArr(snapshot), desc)
                ELSE generateDiffRecord(before, after, desc)
  IN IF unchanged THEN s
     ELSE IF s.batchDepth > 0 THEN [s EXCEPT !.pendingRecord = Some(record)]
     ELSE [TruncateAndAppend(s, record) EXCEPT
             !.fullSnapshot = Some(JsonArr(snapshot))]

\* TRUE when pushSnapshot reaches the append (no early return)
PushAppends(s, snapshot) ==
  /\ s.batchDepth = 0
  /\ \/ s.index < 0
     \/ LET before == IF ~IsNull(s.fullSnapshot) THEN Get(s.fullSnapshot)
                      ELSE rebuildFullSnapshot(s)
        IN ~SameJson(before, JsonArr(snapshot))

pushSnapshot(s, snapshot, desc) ==
  IF PushAppends(s, snapshot) THEN CompressIfOver(PushAppend(s, snapshot, desc))
  ELSE PushAppend(s, snapshot, desc)

beginBatch(s) ==
  [s EXCEPT !.pendingRecord = IF s.batchDepth = 0 THEN Null ELSE @,
            !.batchDepth = @ + 1]

\* TRUE when endBatch commits the pending record
\* EndBatchCommits with a fault: every endBatch of an open batch commits
EndBatchCommits_anyDepth(s) ==
  s.batchDepth > 0 /\ ~IsNull(s.pendingRecord)

EndBatchCommits(s) ==
  s.batchDepth > 0 /\ s.batchDepth - 1 = 0 /\ ~IsNull(s.pendingRecord)

\* EndBatchAppend with a fault: the committed record stays in pendingRecord
EndBatchAppend_keepsPending(s) ==
  IF s.batchDepth <= 0 THEN s
  ELSE IF ~EndBatchCommits(s) THEN [s EXCEPT !.batchDepth = @ - 1]
  ELSE
    LET record == Get(s.pendingRecord)
        t == TruncateAndAppend([s EXCEPT !.batchDepth = @ - 1], record)
    IN [t EXCEPT !.fullSnapshot =
                   IF isSnapshot(record) THEN Some(JsonArr(record.snapshot))
                   ELSE Some(rebuildFullSnapshot(t))]

\* endBatch up to and including pendingRecord = null
\* EndBatchAppend with a fault: the guard batchDepth <= 0 is missing
EndBatchAppend_noGuard(s) ==
  IF ~EndBatchCommits(s) THEN [s EXCEPT !.batchDepth = @ - 1]
  ELSE
    LET record == Get(s.pendingRecord)
        t == TruncateAndAppend([s EXCEPT !.batchDepth = @ - 1], record)
    IN [t EXCEPT !.fullSnapshot =
                   IF isSnapshot(record) THEN Some(JsonArr(record.snapshot))
                   ELSE Some(rebuildFullSnapshot(t)),
                 !.pendingRecord = Null]

EndBatchAppend(s) ==
  IF s.batchDepth <= 0 THEN s
  ELSE IF ~EndBatchCommits(s) THEN [s EXCEPT !.batchDepth = @ - 1]
  ELSE
    LET record == Get(s.pendingRecord)
        t == TruncateAndAppend([s EXCEPT !.batchDepth = @ - 1], record)
    IN [t EXCEPT !.fullSnapshot =
                   IF isSnapshot(record) THEN Some(JsonArr(record.snapshot))
                   ELSE Some(rebuildFullSnapshot(t)),
                 !.pendingRecord = Null]

endBatch(s) ==
  IF EndBatchCommits(s) THEN CompressIfOver(EndBatchAppend(s))
  ELSE EndBatchAppend(s)

Result(snapshot, record) ==
  [snapshot |-> JsonArr(snapshot), changedIds |-> record.changedIds,
   desc |-> record.desc]

\* undo with a fault: the guard is index < 0 instead of index <= 0
undo_belowZero(s) ==
  IF s.index < 0 THEN [st |-> s, result |-> Null]
  ELSE
    LET t == [s EXCEPT !.index = @ - 1]
        snapshot == rebuildFullSnapshot(t)
        u == [t EXCEPT !.fullSnapshot = Some(snapshot)]
    IN IF ~InRange(u.stack, u.index + 1) THEN [st |-> u, result |-> Null]
       ELSE [st |-> u, result |-> Some(Result(snapshot, At(u.stack, u.index + 1)))]

\* undo and redo give the state they leave and the value they return
undo(s) ==
  IF s.index <= 0 THEN [st |-> s, result |-> Null]
  ELSE
    LET t == [s EXCEPT !.index = @ - 1]
        snapshot == rebuildFullSnapshot(t)
        u == [t EXCEPT !.fullSnapshot = Some(snapshot)]
    IN IF ~InRange(u.stack, u.index + 1) THEN [st |-> u, result |-> Null]
       ELSE [st |-> u, result |-> Some(Result(snapshot, At(u.stack, u.index + 1)))]

\* redo with a fault: the result carries the record before the one redone
redo_recordBefore(s) ==
  IF s.index >= Len(s.stack) - 1 THEN [st |-> s, result |-> Null]
  ELSE
    LET t == [s EXCEPT !.index = @ + 1]
        snapshot == rebuildFullSnapshot(t)
        u == [t EXCEPT !.fullSnapshot = Some(snapshot)]
    IN IF ~InRange(u.stack, u.index - 1) THEN [st |-> u, result |-> Null]
       ELSE [st |-> u, result |-> Some(Result(snapshot, At(u.stack, u.index - 1)))]

redo(s) ==
  IF s.index >= Len(s.stack) - 1 THEN [st |-> s, result |-> Null]
  ELSE
    LET t == [s EXCEPT !.index = @ + 1]
        snapshot == rebuildFullSnapshot(t)
        u == [t EXCEPT !.fullSnapshot = Some(snapshot)]
    IN IF ~InRange(u.stack, u.index) THEN [st |-> u, result |-> Null]
       ELSE [st |-> u, result |-> Some(Result(snapshot, At(u.stack, u.index)))]

getCurrent(s) ==
  IF s.index < 0 THEN Null
  ELSE IF ~IsNull(s.fullSnapshot) THEN Some(JsonArr(Get(s.fullSnapshot)))
  ELSE Some(rebuildFullSnapshot(s))

\* clear with a fault: pendingRecord is left as it is
clear_keepsPending(s) ==
  [s EXCEPT !.stack = <<>>, !.index = -1, !.fullSnapshot = Null]

clear(s) ==
  [s EXCEPT !.stack = <<>>, !.index = -1, !.fullSnapshot = Null,
            !.pendingRecord = Null]

\* canUndo with a fault: the first record counts as one that can be undone
canUndo_atZero(s) == s.index >= 0

\* HistoryService.canUndo / canRedo
canUndo(s) == s.index > 0
canRedo(s) == s.index < Len(s.stack) - 1

\* ----------------------------------------------------------- state machine
VARIABLES stack, index, fullSnapshot, batchDepth, pendingRecord, document
vars == <<stack, index, fullSnapshot, batchDepth, pendingRecord, document>>

\* the store as one value
St == [stack |-> stack, index |-> index, fullSnapshot |-> fullSnapshot,
       batchDepth |-> batchDepth, pendingRecord |-> pendingRecord]

Becomes(t) ==
  /\ stack' = t.stack
  /\ index' = t.index
  /\ fullSnapshot' = t.fullSnapshot
  /\ batchDepth' = t.batchDepth
  /\ pendingRecord' = t.pendingRecord
  /\ document' = document

Init ==
  /\ stack = <<>>
  /\ index = -1
  /\ fullSnapshot = Null
  /\ batchDepth = 0
  /\ pendingRecord = Null
  /\ document \in Documents

PushSnapshot == \E snapshot \in Collections(document), desc \in Descs :
                  Becomes(pushSnapshot(St, snapshot, desc))
BeginBatch == batchDepth < MaxDepth /\ Becomes(beginBatch(St))
EndBatch == \E t \in {endBatch(St)} : Becomes(t)
Undo == \E r \in {undo(St)} : Becomes(r.st)
Redo == \E r \in {redo(St)} : Becomes(r.st)
Clear == \E t \in {clear(St)} : Becomes(t)

Next == PushSnapshot \/ BeginBatch \/ EndBatch \/ Undo \/ Redo \/ Clear

Spec == Init /\ [][Next]_vars

\* ------------------------------------------------------------- properties
\* the snapshot inside the value undo or redo returns, null when it is null
ResultSnapshot(result) == {r.snapshot : r \in result}

\* most undos in a row the round-trip property follows
MaxUndo == 2

RECURSIVE UndoTimes(_, _)
UndoTimes(s, k) ==
  IF k = 0 THEN [st |-> s, ok |-> TRUE]
  ELSE LET p == UndoTimes(s, k - 1)
           u == undo(p.st)
       IN [st |-> u.st, ok |-> p.ok /\ ~IsNull(u.result)]

RECURSIVE RedoTimes(_, _)
RedoTimes(s, k) ==
  IF k = 0 THEN [st |-> s, ok |-> TRUE, result |-> Null]
  ELSE LET p == RedoTimes(s, k - 1)
           r == redo(p.st)
       IN [st |-> r.st, ok |-> p.ok /\ ~IsNull(r.result), result |-> r.result]

\* C1: whenever k undos in a row succeed, the k redos that follow succeed too
\* and the last one returns the collection getCurrent() gave before the first
\* undo: same elements, same fields, same order.
C1_UndoRedoRoundTrip ==
  \A k \in 1..MaxUndo :
    UndoTimes(St, k).ok =>
      LET r == RedoTimes(UndoTimes(St, k).st, k)
      IN r.ok /\ ResultSnapshot(r.result) = getCurrent(St)

\* the state after beginBatch(); push(A); push(B); push(C), before endBatch()
BatchOfThree(s, A, B, C, desc) ==
  pushSnapshot(pushSnapshot(pushSnapshot(beginBatch(s), A, desc), B, desc), C, desc)

\* C2: outside a batch, beginBatch(); push(A); push(B); push(C); endBatch()
\* with a last snapshot C that differs from the current collection appends
\* exactly one entry after the cursor, getCurrent() is then C, and one undo()
\* returns the collection that was current before beginBatch().
C2_BatchAtomicity ==
  batchDepth = 0 =>
    \A A, B, C \in Collections(document), desc \in Descs :
      getCurrent(St) # Some(C) =>
        LET open == BatchOfThree(St, A, B, C, desc)
            appended == EndBatchAppend(open)
            closed == endBatch(open)
        IN /\ Len(appended.stack) = index + 2
           /\ SubSeq(appended.stack, 1, index + 1) = SubSeq(stack, 1, index + 1)
           /\ getCurrent(closed) = Some(C)
           /\ ResultSnapshot(undo(closed).result) = getCurrent(St)

\* what compressHistory has to keep when it runs on the state p
CompactionKeeps(p) ==
  LET q == compressHistory(p)
      removeCount == Len(p.stack) - keepCount
  IN /\ \A i \in (removeCount - 1)..(Len(p.stack) - 1) :
          SameJson(RebuildAt(p.stack, i), RebuildAt(q.stack, i - (removeCount - 1)))
     /\ q.index = p.index - (removeCount - 1)
     /\ SameJson(rebuildFullSnapshot(q), rebuildFullSnapshot(p))
     /\ getCurrent(q) = getCurrent(p)

\* C3: in every compaction that pushSnapshot or endBatch triggers, each index
\* i >= removeCount - 1 materializes before the compaction to the collection
\* that index i - (removeCount - 1) materializes to after it, the cursor moves
\* by the same removeCount - 1, and getCurrent() is unchanged.
C3_CompactionPreservesReconstruction ==
  /\ \A snapshot \in Collections(document), desc \in Descs :
       LET p == PushAppend(St, snapshot, desc)
       IN (PushAppends(St, snapshot) /\ Len(p.stack) > compressThreshold)
            => CompactionKeeps(p)
  /\ LET p == EndBatchAppend(St)
     IN (EndBatchCommits(St) /\ Len(p.stack) > compressThreshold)
          => CompactionKeeps(p)

\* a push is about to merge a non-empty diff into the checkpoint
C3_Witness ==
  \E snapshot \in Collections(document), desc \in Descs :
    LET p == PushAppend(St, snapshot, desc)
    IN /\ PushAppends(St, snapshot)
       /\ Len(p.stack) - keepCount >= 2
       /\ ~isSnapshot(At(p.stack, 1))
       /\ At(p.stack, 1).changes # <<>>
       /\ CompactionKeeps(p)

\* undo(); undo(); push(X); with both undos succeeding
TwoUndosThenPush(s, X, desc) == pushSnapshot(UndoTimes(s, 2).st, X, desc)

\* C4 as stated: outside a batch, after two undos that succeed and a push of
\* any snapshot X, redo() returns nothing and canRedo() is false.
C4_TruncationAnySnapshot ==
  (batchDepth = 0 /\ UndoTimes(St, 2).ok) =>
    \A X \in Collections(document), desc \in Descs :
      LET s == TwoUndosThenPush(St, X, desc)
      IN IsNull(redo(s).result) /\ ~canRedo(s)

\* C4 amended: the same for every snapshot X that is not identical to the
\* collection current after the two undos (the push is not a no-op).
C4_TruncationOnNewEdit ==
  (batchDepth = 0 /\ UndoTimes(St, 2).ok) =>
    \A X \in Collections(document), desc \in Descs :
      getCurrent(UndoTimes(St, 2).st) # Some(X) =>
        LET s == TwoUndosThenPush(St, X, desc)
        IN IsNull(redo(s).result) /\ ~canRedo(s) /\ s.index = Len(s.stack) - 1

\* two undos succeed and the push of a new snapshot discards the redo entries
C4_Witness ==
  /\ batchDepth = 0
  /\ UndoTimes(St, 2).ok
  /\ \E X \in Collections(document), desc \in Descs :
       /\ getCurrent(UndoTimes(St, 2).st) # Some(X)
       /\ canRedo(UndoTimes(St, 2).st)
       /\ ~canRedo(TwoUndosThenPush(St, X, desc))

\* C5: outside a batch and with a non-empty log, a push of a snapshot whose
\* diff against the current collection is empty (also when it only lists the
\* same elements in another order) changes neither stack, index nor
\* fullSnapshot.
C5_NoOpPush ==
  (index >= 0 /\ batchDepth = 0) =>
    \A S \in Collections(document), desc \in Descs :
      generateDiffRecord(Get(getCurrent(St)), S, desc).changes = <<>>
        => pushSnapshot(St, S, desc) = St

\* C6: outside a batch, push(S); push(S) leaves the stack and the index that
\* the first push(S) left.
C6_PushIdempotent ==
  batchDepth = 0 =>
    \A S \in Collections(document), d1, d2 \in Descs :
      LET once == pushSnapshot(St, S, d1)
          twice == pushSnapshot(once, S, d2)
      IN twice.stack = once.stack /\ twice.index = once.index

\* the first push(S) appends a diff, the second one is dropped
C6_Witness ==
  /\ batchDepth = 0
  /\ index >= 0
  /\ \E S \in Collections(document), d \in Descs :
       /\ PushAppends(St, S)
       /\ pushSnapshot(pushSnapshot(St, S, d), S, d) = pushSnapshot(St, S, d)

\* C7: -1 <= index <= stack.length - 1, and index = -1 exactly when the stack
\* is empty.
C7_CursorRange ==
  /\ -1 <= index
  /\ index <= Len(stack) - 1
  /\ (index = -1) <=> (stack = <<>>)

\* the cursor was undone to the checkpoint a compaction wrote
C7_Witness ==
  /\ Len(stack) > compressThreshold
  /\ index = 0
  /\ stack[1].desc = "compressed"

\* C8: a non-empty stack starts with a snapshot record.
C8_CheckpointAtZero == stack # <<>> => isSnapshot(stack[1])

\* a compaction has merged a diff into the first record
C8_Witness ==
  /\ Len(stack) > compressThreshold
  /\ stack[1].desc = "compressed"
  /\ index = Len(stack) - 1
  /\ RebuildAt(stack, 0) # RebuildAt(stack, 1)

\* C9: a cached fullSnapshot is the collection rebuilt from the stack at the
\* index, in the same order.
C9_CacheCoherence ==
  ~IsNull(fullSnapshot) => SameJson(Get(fullSnapshot), rebuildFullSnapshot(St))

\* C10: pendingRecord is non-null only inside a batch; the endBatch that
\* closes the outermost batch and clear() leave it null.
C10_PendingOnlyInBatch ==
  /\ ~IsNull(pendingRecord) => batchDepth > 0
  /\ batchDepth = 1 => IsNull(endBatch(St).pendingRecord)
  /\ IsNull(clear(St).pendingRecord)

\* a pending record waits for the endBatch that closes the outermost batch
C10_Witness == ~IsNull(pendingRecord) /\ batchDepth = 1 /\ stack # <<>>

\* what an append has to leave, s the state before it and p the state after
\* it and before any compaction
AppendKeepsPrefix(s, p) ==
  /\ Len(p.stack) = s.index + 2
  /\ SubSeq(p.stack, 1, s.index + 1) = SubSeq(s.stack, 1, s.index + 1)
  /\ p.index = Len(p.stack) - 1
  /\ CompressIfOver(p).index = Len(CompressIfOver(p).stack) - 1

CompactionSteps ==
  {PushAppend(St, S, desc) :
     S \in {c \in Collections(document) : PushAppends(St, c)}, desc \in Descs}
    \cup (IF EndBatchCommits(St) THEN {EndBatchAppend(St)} ELSE {})

\* C12: right after every compaction stack.length is keepCount.
C12_CompactionTargetLength ==
  \A p \in CompactionSteps :
    Len(p.stack) > compressThreshold => Len(compressHistory(p).stack) = keepCount

\* what the end of an append does, p the state right after the append and q
\* the state pushSnapshot or endBatch returns in
TriggerAtThreshold(s, p, q) ==
  /\ Len(p.stack) > compressThreshold =>
       /\ q = compressHistory(p)
       /\ At(q.stack, 0).desc = "compressed"
  /\ Len(p.stack) <= compressThreshold =>
       /\ q = p
       /\ SubSeq(q.stack, 1, s.index + 1) = SubSeq(s.stack, 1, s.index + 1)

\* C13: compressHistory runs exactly when an append (push outside a batch or
\* the committing endBatch) leaves stack.length > compressThreshold; an append
\* that leaves stack.length <= compressThreshold changes no existing record.
C13_TriggerAboveThreshold ==
  /\ \A S \in Collections(document), desc \in Descs :
       PushAppends(St, S) =>
         TriggerAtThreshold(St, PushAppend(St, S, desc), pushSnapshot(St, S, desc))
  /\ EndBatchCommits(St) =>
       TriggerAtThreshold(St, EndBatchAppend(St), endBatch(St))

\* one push stays at the threshold, another push or an endBatch goes above it
C13_Witness ==
  /\ Len(stack) = compressThreshold
  /\ index = Len(stack) - 2
  /\ batchDepth = 1
  /\ EndBatchCommits(St)
  /\ Len(EndBatchAppend(St).stack) = compressThreshold
  /\ endBatch(St) = EndBatchAppend(St)
  /\ \E S \in Collections(document), desc \in Descs :
       LET closed == endBatch(St)
       IN /\ PushAppends(closed, S)
          /\ pushSnapshot(closed, S, desc) = compressHistory(PushAppend(closed, S, desc))
          /\ pushSnapshot(closed, S, desc) # PushAppend(closed, S, desc)

\* C14 as stated: a push compacts only when the length after the append
\* exceeds maxSize + compressThreshold.
C14_TriggerAboveMaxPlusThreshold ==
  \A S \in Collections(document), desc \in Descs :
    (PushAppends(St, S) /\
     Len(PushAppend(St, S, desc).stack) <= maxSize + compressThreshold)
      => pushSnapshot(St, S, desc) = PushAppend(St, S, desc)

\* C14 amended: a push compacts only when the length after the append exceeds
\* compressThreshold, and then it does.
C14_PushTriggerAboveThreshold ==
  \A S \in Collections(document), desc \in Descs :
    PushAppends(St, S) =>
      LET p == PushAppend(St, S, desc)
          q == pushSnapshot(St, S, desc)
      IN /\ Len(p.stack) <= compressThreshold => q = p
         /\ q # p => Len(p.stack) > compressThreshold
         /\ Len(p.stack) > compressThreshold =>
              At(q.stack, 0) = SnapshotRecord(
                MergedSnapshot(p.stack, Len(p.stack) - keepCount), "compressed")

\* a push leaves compressThreshold + 1 records, far below maxSize +
\* compressThreshold, and the first record is rewritten
C14_Witness ==
  \E S \in Collections(document), desc \in Descs :
    /\ PushAppends(St, S)
    /\ Len(PushAppend(St, S, desc).stack) = compressThreshold + 1
    /\ pushSnapshot(St, S, desc) # PushAppend(St, S, desc)

\* ---- compressHistory called on its own ----

\* the longest log compressHistory is called on directly
MaxLog == 5

\* the store after construction
EmptyStore ==
  [stack |-> <<>>, index |-> -1, fullSnapshot |-> Null, batchDepth |-> 0,
   pendingRecord |-> Null]

\* the store after the pushes cs, none of which went on to compressHistory
RECURSIVE GrownLog(_)
GrownLog(cs) ==
  IF cs = <<>> THEN EmptyStore
  ELSE PushAppend(GrownLog(SubSeq(cs, 1, Len(cs) - 1)), cs[Len(cs)], "unknown")

InitLog ==
  \E doc \in Documents, n \in 1..MaxLog :
    \E cs \in [1..n -> Collections(doc)] :
      /\ stack = GrownLog(cs).stack
      /\ index = GrownLog(cs).index
      /\ fullSnapshot = GrownLog(cs).fullSnapshot
      /\ batchDepth = 0
      /\ pendingRecord = Null
      /\ document = doc

\* store.compressHistory(): the action is public, nothing guards the call
CompressHistory == \E t \in {compressHistory(St)} : Becomes(t)

NextCompress == CompressHistory \/ Undo \/ Redo

SpecCompress == InitLog /\ [][NextCompress]_vars

RECURSIVE UndoRedoClosure(_, _)
UndoRedoClosure(S, n) ==
  IF n = 0 THEN S
  ELSE UndoRedoClosure(S \cup {undo(s).st : s \in S} \cup {redo(s).st : s \in S},
                       n - 1)

\* the stores undo() / redo() lead to from s: the cursor moves one step a call
ReachStates(s) == UndoRedoClosure({s}, Len(s.stack))

\* the collections getCurrent() shows in these stores
CurrentOf(S) == {Get(getCurrent(u)) : u \in {v \in S : v.index >= 0}}

\* C16 as stated: every collection undo / redo can reach right before a
\* compaction can be reached right after it.
C16_CompactionDiscardsNothing ==
  \A p \in CompactionSteps :
    Len(p.stack) > compressThreshold =>
      CurrentOf(ReachStates(p)) \subseteq CurrentOf(ReachStates(compressHistory(p)))

\* C16 amended: every collection undo / redo can reach at an index >=
\* removeCount - 1 right before a compaction, the current one among them, can
\* be reached right after it.
C16_CompactionKeepsSurviving ==
  \A p \in CompactionSteps :
    Len(p.stack) > compressThreshold =>
      LET removeCount == Len(p.stack) - keepCount
          surviving == {u \in ReachStates(p) : u.index >= removeCount - 1}
      IN CurrentOf(surviving) \subseteq CurrentOf(ReachStates(compressHistory(p)))

\* a compaction that merges two records and loses the collection of the first
C16_Witness ==
  \E p \in CompactionSteps :
    /\ Len(p.stack) - keepCount >= 2
    /\ ~(CurrentOf(ReachStates(p)) \subseteq CurrentOf(ReachStates(compressHistory(p))))
    /\ Cardinality(CurrentOf({u \in ReachStates(p) : u.index >= 1})) >= 3

\* ---- batches ----

\* C17: a push while batchDepth > 0 leaves stack, index and fullSnapshot
\* unchanged, whatever the stack length (so it does not compress); it can
\* only replace pendingRecord.
C17_PushInBatchFrame ==
  batchDepth > 0 =>
    \A S \in Collections(document), desc \in Descs :
      LET q == pushSnapshot(St, S, desc)
      IN /\ q.stack = stack
         /\ q.index = index
         /\ q.fullSnapshot = fullSnapshot
         /\ q.batchDepth = batchDepth
         /\ ~PushAppends(St, S)

\* a push in a batch on a stack above the threshold, replacing pendingRecord
C17_Witness ==
  /\ batchDepth > 0
  /\ Len(stack) > compressThreshold
  /\ ~IsNull(pendingRecord)
  /\ \E S \in Collections(document), desc \in Descs :
       /\ pushSnapshot(St, S, desc).pendingRecord # pendingRecord
       /\ pushSnapshot(St, S, desc).stack = stack

\* C18: with nested batches an endBatch that leaves batchDepth > 0 changes
\* neither stack nor index and keeps pendingRecord; the endBatch that brings
\* batchDepth to 0 appends the pending record and nothing else, one record at
\* most.
C18_NestedEndBatch ==
  LET q == endBatch(St)
      e == EndBatchAppend(St)
  IN /\ batchDepth >= 2 =>
          /\ q.stack = stack
          /\ q.index = index
          /\ q.fullSnapshot = fullSnapshot
          /\ q.pendingRecord = pendingRecord
          /\ q.batchDepth = batchDepth - 1
     /\ batchDepth = 1 =>
          /\ q.batchDepth = 0
          /\ IsNull(q.pendingRecord)
          /\ IsNull(pendingRecord) => (q.stack = stack /\ q.index = index)
          /\ ~IsNull(pendingRecord) =>
               /\ e.stack = Append(SubSeq(stack, 1, index + 1), Get(pendingRecord))
               /\ e.index = index + 1
               /\ Len(q.stack) <= index + 2

\* an inner endBatch with a pending record, the outer endBatch appends it
C18_Witness ==
  /\ batchDepth = 2
  /\ ~IsNull(pendingRecord)
  /\ index >= 0
  /\ endBatch(St).stack = stack
  /\ endBatch(St).pendingRecord = pendingRecord
  /\ Len(EndBatchAppend(endBatch(St)).stack) = index + 2

\* C19: endBatch() with batchDepth = 0 changes nothing of the store, and
\* batchDepth >= 0 in every state.
C19_EndBatchAtZero ==
  /\ batchDepth >= 0
  /\ batchDepth = 0 => endBatch(St) = St
  /\ endBatch(St).batchDepth >= 0

\* an endBatch without an open batch on a non-empty history
C19_Witness ==
  /\ batchDepth = 0
  /\ index >= 1
  /\ canRedo(St)
  /\ endBatch(St) = St

\* beginBatch(); pushSnapshot(S); endBatch()
BatchOfOne(s, S, desc) == endBatch(pushSnapshot(beginBatch(s), S, desc))

\* the two caches hold the same collection, in the same order
SameCache(a, b) ==
  IF IsNull(a) \/ IsNull(b) THEN a = b ELSE SameJson(Get(a), Get(b))

\* C20: from a state with batchDepth = 0 and for every snapshot S,
\* beginBatch(); pushSnapshot(S); endBatch() ends with the stack, the index
\* and the cached collection that pushSnapshot(S) alone ends with, the order
\* of the elements included.
C20_BatchEqualsPush ==
  batchDepth = 0 =>
    \A S \in Collections(document), desc \in Descs :
      /\ BatchOfOne(St, S, desc).stack = pushSnapshot(St, S, desc).stack
      /\ BatchOfOne(St, S, desc).index = pushSnapshot(St, S, desc).index
      /\ SameCache(BatchOfOne(St, S, desc).fullSnapshot,
                   pushSnapshot(St, S, desc).fullSnapshot)

\* ---- undo, redo, clear ----

\* C21: undo() with index <= 0 and redo() with index >= stack.length - 1
\* return null and change nothing of the store; on an empty history undo(),
\* redo() and getCurrent() all return null.
C21_BoundaryNoOps ==
  /\ index <= 0 => (IsNull(undo(St).result) /\ undo(St).st = St)
  /\ index >= Len(stack) - 1 => (IsNull(redo(St).result) /\ redo(St).st = St)
  /\ stack = <<>> =>
       (IsNull(undo(St).result) /\ IsNull(redo(St).result) /\ IsNull(getCurrent(St)))

\* an undo at the first record of a longer history, inside a batch
C21_Witness ==
  /\ index = 0
  /\ Len(stack) > 1
  /\ batchDepth > 0
  /\ ~IsNull(pendingRecord)
  /\ IsNull(undo(St).result)
  /\ undo(St).st = St
  /\ ~IsNull(redo(St).result)

\* C22: a successful undo from index c leaves index c - 1 and returns the
\* collection materialized at c - 1 with changedIds and desc of stack[c]; a
\* successful redo from c leaves index c + 1 and returns the collection
\* materialized at c + 1 with changedIds and desc of stack[c + 1]; the stack
\* is the same after both.
C22_UndoRedoResults ==
  /\ index > 0 =>
       /\ undo(St).st.index = index - 1
       /\ undo(St).st.stack = stack
       /\ undo(St).result =
            Some([snapshot |-> JsonArr(RebuildAt(stack, index - 1)),
                  changedIds |-> At(stack, index).changedIds,
                  desc |-> At(stack, index).desc])
  /\ index < Len(stack) - 1 =>
       /\ redo(St).st.index = index + 1
       /\ redo(St).st.stack = stack
       /\ redo(St).result =
            Some([snapshot |-> JsonArr(RebuildAt(stack, index + 1)),
                  changedIds |-> At(stack, index + 1).changedIds,
                  desc |-> At(stack, index + 1).desc])

\* a cursor between two records whose changedIds differ, so that the record
\* reported by undo and the one reported by redo can be told apart
C22_Witness ==
  /\ index > 0
  /\ index < Len(stack) - 1
  /\ At(stack, index).changedIds # At(stack, index + 1).changedIds
  /\ At(stack, index - 1).changedIds # At(stack, index).changedIds
  /\ ~IsNull(undo(St).result)
  /\ ~IsNull(redo(St).result)

\* C23: clear() leaves an empty stack, index -1, no cache and no pending
\* record, with batchDepth as it was; canUndo and canRedo are false then and
\* getCurrent() returns null.
C23_Clear ==
  LET q == clear(St)
  IN /\ q.stack = <<>>
     /\ q.index = -1
     /\ IsNull(q.fullSnapshot)
     /\ IsNull(q.pendingRecord)
     /\ q.batchDepth = batchDepth
     /\ ~canUndo(q)
     /\ ~canRedo(q)
     /\ IsNull(getCurrent(q))

\* a clear inside a nested batch with a pending record and redo records
C23_Witness ==
  /\ batchDepth = 2
  /\ ~IsNull(pendingRecord)
  /\ canUndo(St)
  /\ canRedo(St)
  /\ clear(St).batchDepth = 2
  /\ clear(St).stack = <<>>

\* ---- malformed input ----

\* the element e without its id property
Keyless(e) == [k \in (DOMAIN e) \ {"id"} |-> e[k]]

\* the snapshots of one or two elements of which at least one has no id
InvalidCollections(doc) ==
  LET some == Elements(doc) \cup {Keyless(e) : e \in Elements(doc)}
  IN {c \in [1..1 -> some] \cup [1..2 -> some] :
        \E i \in 1..Len(c) : "id" \notin DOMAIN c[i]}

\* C24: pushSnapshot of a snapshot in which some element has no id fails and
\* leaves stack, index, fullSnapshot and pendingRecord unchanged.
C24_InvalidEntityRejected ==
  \A K \in InvalidCollections(document), desc \in Descs :
    LET q == pushSnapshot(St, K, desc)
    IN /\ q.stack = stack
       /\ q.index = index
       /\ q.fullSnapshot = fullSnapshot
       /\ q.pendingRecord = pendingRecord

\* ---- rebuildFullSnapshot on a stack without a snapshot record ----

\* a store whose first record, the only snapshot record, is gone: the
\* pushes cs without their first record, the cursor on the last record
InitCorrupt ==
  \E doc \in Documents, n \in 3..MaxLog :
    \E cs \in [1..n -> Collections(doc)] :
      /\ Len(GrownLog(cs).stack) >= 3
      /\ stack = Tail(GrownLog(cs).stack)
      /\ index = GrownLog(cs).index - 1
      /\ fullSnapshot = GrownLog(cs).fullSnapshot
      /\ batchDepth = 0
      /\ pendingRecord = Null
      /\ document = doc

\* undo() and redo(), the callers of rebuildFullSnapshot that hand its
\* result out
NextCorrupt == Undo \/ Redo

SpecCorrupt == InitCorrupt /\ [][NextCorrupt]_vars

Number(v) == IF v = "0" THEN 0 ELSE 1

\* the elements of c whose id is in ids, in the order of c
Restrict(c, ids) == SelectSeq(c, LAMBDA e : e.id \in ids)

\* the position of the element with this id in c
PositionOf(c, id) == CHOOSE i \in 1..Len(c) : c[i].id = id

\* the elements of c are in the order of their zIndex
ZSorted(c) ==
  \A i \in 1..Len(c) : \A j \in i..Len(c) :
    Number(c[i].zIndex) <= Number(c[j].zIndex)

\* C26: applyDiffRecord(base, diff) keeps the elements diff does not mention
\* in their order, and puts every added element where its zIndex puts it
\* among the others, not at the end; the second part is asked of collections
\* that are themselves in zIndex order.
C26_ApplyKeepsOrder ==
  (document = "layers" /\ index >= 0) =>
    \A S \in Collections(document), desc \in Descs :
      LET base == rebuildFullSnapshot(St)
          diff == generateDiffRecord(base, JsonArr(S), desc)
          result == applyDiffRecord(base, diff)
          baseIds == {base[i].id : i \in 1..Len(base)}
          changed == {diff.changedIds[i] : i \in 1..Len(diff.changedIds)}
          added == changed \ baseIds
          resultIds == {result[i].id : i \in 1..Len(result)}
      IN /\ Restrict(result, baseIds \ changed) = Restrict(base, baseIds \ changed)
         /\ (ZSorted(base) /\ ZSorted(S)) =>
            \A a \in added : \A o \in resultIds \ {a} :
              LET ea == result[PositionOf(result, a)]
                  eo == result[PositionOf(result, o)]
              IN Number(ea.zIndex) < Number(eo.zIndex) =>
                   PositionOf(result, a) < PositionOf(result, o)

\* ---- stack length ----

\* C27 as stated: a push, endBatch, undo, redo or beginBatch that does not
\* compress never leaves the stack shorter than it was.
C27_LengthNeverShrinks ==
  /\ \A S \in Collections(document), desc \in Descs :
       Len(PushAppend(St, S, desc).stack) >= Len(stack)
  /\ Len(EndBatchAppend(St).stack) >= Len(stack)
  /\ Len(undo(St).st.stack) >= Len(stack)
  /\ Len(redo(St).st.stack) >= Len(stack)
  /\ Len(beginBatch(St).stack) >= Len(stack)

\* C27 amended: apart from compressHistory and clear, the stack gets shorter
\* only in an append (push outside a batch, committing endBatch) made with
\* two or more records after the cursor: the append leaves index + 2
\* records. undo, redo, beginBatch, a push inside a batch and an endBatch
\* that does not commit leave the stack as it is.
C27_ShrinksOnlyByTruncation ==
  /\ \A S \in Collections(document), desc \in Descs :
       LET p == PushAppend(St, S, desc)
       IN /\ PushAppends(St, S) => Len(p.stack) = index + 2
          /\ ~PushAppends(St, S) => p.stack = stack
          /\ Len(p.stack) < Len(stack) <=> (PushAppends(St, S) /\ index < Len(stack) - 2)
  /\ LET e == EndBatchAppend(St)
     IN /\ EndBatchCommits(St) => Len(e.stack) = index + 2
        /\ ~EndBatchCommits(St) => e.stack = stack
        /\ Len(e.stack) < Len(stack) <=> (EndBatchCommits(St) /\ index < Len(stack) - 2)
  /\ undo(St).st.stack = stack
  /\ redo(St).st.stack = stack
  /\ beginBatch(St).stack = stack

\* a push two undos back: three records become two without a compaction
C27_Witness ==
  /\ Len(stack) = 3
  /\ index = 0
  /\ batchDepth = 0
  /\ \E S \in Collections(document), desc \in Descs :
       /\ PushAppends(St, S)
       /\ Len(PushAppend(St, S, desc).stack) = 2
       /\ pushSnapshot(St, S, desc) = PushAppend(St, S, desc)

\* ---- HistoryService and the element store ----

\* HistoryService.undo with a fault: the element store is not written
HistoryService_undo_noWriteBack(s, elements) ==
  [st |-> undo(s).st, result |-> undo(s).result, elements |-> elements]

\* HistoryService.undo(), elements being elementsStore.elements before the
\* call: the store it leaves, the value it returns, elementsStore.elements
\* after it.  An array, empty or not, is truthy.
HistoryService_undo(s, elements) ==
  LET result == undo(s).result
  IN [st |-> undo(s).st, result |-> result,
      elements |-> IF ~IsNull(result) THEN Get(result).snapshot ELSE elements]

\* HistoryService.redo()
HistoryService_redo(s, elements) ==
  LET result == redo(s).result
  IN [st |-> redo(s).st, result |-> result,
      elements |-> IF ~IsNull(result) THEN Get(result).snapshot ELSE elements]

\* what a write-back has to leave, r being what the service call gave
WrittenBack(r, elements) ==
  /\ ~IsNull(r.result) =>
       /\ r.elements = Get(r.result).snapshot
       /\ Some(r.elements) = getCurrent(r.st)
  /\ IsNull(r.result) => r.elements = elements

\* C28: when HistoryService.undo() / redo() succeeds, elementsStore.elements
\* is the returned collection and equals getCurrent(); when it returns null,
\* elementsStore.elements is what it was.
C28_WriteBack ==
  \A elements \in Collections(document) :
    /\ WrittenBack(HistoryService_undo(St, elements), elements)
    /\ WrittenBack(HistoryService_redo(St, elements), elements)

\* an undo that succeeds and a redo that returns null, on an element store
\* that holds something else than the collection undone to
C28_Witness ==
  /\ canUndo(St)
  /\ ~canRedo(St)
  /\ \E elements \in Collections(document) :
       /\ HistoryService_undo(St, elements).elements # elements
       /\ Some(HistoryService_undo(St, elements).elements) =
            getCurrent(HistoryService_undo(St, elements).st)
       /\ HistoryService_redo(St, elements).elements = elements

\* ---- undo, redo and repeated pushes inside a batch ----

\* the sequences of at most MaxUndo undo() / redo() calls
CursorMoves == UNION {[1..k -> {"undo", "redo"}] : k \in 0..MaxUndo}

RECURSIVE RunMoves(_, _)
\* the store after the calls in moves
RunMoves(s, moves) ==
  IF moves = <<>> THEN s
  ELSE LET t == RunMoves(s, SubSeq(moves, 1, Len(moves) - 1))
       IN IF moves[Len(moves)] = "undo" THEN undo(t).st ELSE redo(t).st

\* beginBatch(); the calls in pre; pushSnapshot(S); the calls in post: the
\* store the outermost endBatch finds
BatchWithMoves(s, pre, S, post, desc) ==
  RunMoves(pushSnapshot(RunMoves(beginBatch(s), pre), S, desc), post)

\* the elements of a collection, their order left aside
ElementSet(c) == {JsonObj(c[i]) : i \in 1..Len(c)}

\* C29: whatever undo() and redo() calls surround the push inside a batch,
\* when the outermost endBatch commits the pending record, getCurrent()
\* afterwards holds the elements of the snapshot pushed in the batch.
C29_BatchWithUndoRedo ==
  (batchDepth = 0 /\ index >= 0) =>
    \A pre \in CursorMoves, post \in CursorMoves :
      \A S \in Collections(document), desc \in Descs :
        LET b == BatchWithMoves(St, pre, S, post, desc)
        IN EndBatchCommits(b) =>
             ElementSet(Get(getCurrent(endBatch(b)))) = ElementSet(S)

\* beginBatch(); pushSnapshot(S1); pushSnapshot(the collection current at
\* beginBatch); endBatch()
BatchBackToStart(s, S1, desc) ==
  endBatch(pushSnapshot(pushSnapshot(beginBatch(s), S1, desc),
                        Get(getCurrent(s)), desc))

\* C30: when the last snapshot pushed inside a batch is the collection that
\* was current at beginBatch, the outermost endBatch appends nothing: stack,
\* index and getCurrent() are what they were at beginBatch, whatever was
\* pushed before in the batch.
C30_BatchBackToStart ==
  (batchDepth = 0 /\ index >= 0) =>
    \A S1 \in Collections(document), desc \in Descs :
      /\ BatchBackToStart(St, S1, desc).stack = stack
      /\ BatchBackToStart(St, S1, desc).index = index
      /\ getCurrent(BatchBackToStart(St, S1, desc)) = getCurrent(St)

\* ---- generateDiffRecord and applyDiffRecord ----

\* the collection pushSnapshot diffs against: the cache, or the rebuilt one
BeforeOfPush(s) ==
  IF ~IsNull(s.fullSnapshot) THEN Get(s.fullSnapshot) ELSE rebuildFullSnapshot(s)

\* the collections a diff is taken from: every snapshot a caller can hand
\* in, and the one the store holds
Befores ==
  Collections(document) \cup (IF index >= 0 THEN {BeforeOfPush(St)} ELSE {})

\* C31: for collections before and after that are unique by id,
\* applyDiffRecord(before, generateDiffRecord(before, after)) holds exactly
\* the elements of after, each once, with the same value in every field, also
\* when an element has lost a field.
C31_DiffApplyRoundTrip ==
  \A before \in Befores, S \in Collections(document), desc \in Descs :
    LET after == JsonArr(S)
        result == applyDiffRecord(before, generateDiffRecord(before, after, desc))
    IN /\ ElementSet(result) = ElementSet(after)
       /\ Len(result) = Len(after)

\* the store holds an element with a fill, the snapshot holds it without:
\* the result carries fill as an own property holding undefined
C31_Witness ==
  /\ index >= 0
  /\ \E S \in Collections(document), desc \in Descs :
       LET before == BeforeOfPush(St)
           result == applyDiffRecord(before,
                       generateDiffRecord(before, JsonArr(S), desc))
       IN /\ Len(before) = 1 /\ Len(S) = 1
          /\ Val(before[1], "fill") = "red"
          /\ "fill" \notin DOMAIN S[1]
          /\ "fill" \in DOMAIN result[1]
          /\ result[1].fill = Undef
          /\ ElementSet(result) = ElementSet(S)

\* an editing session on the "keyorder" document
InitKeyOrder ==
  /\ stack = <<>>
  /\ index = -1
  /\ fullSnapshot = Null
  /\ batchDepth = 0
  /\ pendingRecord = Null
  /\ document = "keyorder"

SpecKeyOrder == InitKeyOrder /\ [][Next]_vars

\* the element of collection c with the given id
ById(c, id) == c[CHOOSE i \in 1..Len(c) : Val(c[i], "id") = id]
\* the fields in which elements b and a hold different values
DifferingFields(b, a) ==
  {k \in (ObjectKeys(b) \cup ObjectKeys(a)) \ {"id"} : Val(b, k) # Val(a, k)}
IdSet(c) == {Val(c[i], "id") : i \in 1..Len(c)}
\* the ids generateDiffRecord is to list for before and after
DifferingIds(before, after) ==
  (IdSet(after) \ IdSet(before)) \cup (IdSet(before) \ IdSet(after))
    \cup {id \in IdSet(before) \cap IdSet(after) :
            DifferingFields(ById(before, id), ById(after, id)) # {}}

\* C32: generateDiffRecord(before, after) lists in changedIds exactly the
\* ids only in after, only in before, or in both with at least one field
\* holding different values, each once; for an element in both, the record
\* holds exactly the differing fields, with the old and the new value of
\* each; changedIds is empty exactly when no element differs.
C32_DiffExactness ==
  \A before \in Befores, S \in Collections(document), desc \in Descs :
    LET after == JsonArr(S)
        diff == generateDiffRecord(before, after, desc)
        expected == DifferingIds(before, after)
    IN /\ {diff.changedIds[i] : i \in 1..Len(diff.changedIds)} = expected
       /\ Len(diff.changedIds) = Cardinality(expected)
       /\ (Len(diff.changedIds) = 0) <=> (expected = {})
       /\ \A i \in 1..Len(diff.changes) :
            LET id == diff.changes[i][1]
                change == diff.changes[i][2]
            IN (~IsNull(change.before) /\ ~IsNull(change.after)) =>
                 LET b == ById(before, id)
                     a == ById(after, id)
                 IN /\ DOMAIN Get(change.before) \ {"id"} = DifferingFields(b, a)
                    /\ DOMAIN Get(change.after) \ {"id"} = DifferingFields(b, a)
                    /\ \A k \in DifferingFields(b, a) :
                         /\ Get(change.before)[k] = Val(b, k)
                         /\ Get(change.after)[k] = Val(a, k)

\* ---- bounds on the length of the log ----

\* first half of C33: the log never holds more than compressThreshold + 1
\* records
LengthBound == Len(stack) <= compressThreshold + 1

\* C33: with keepCount <= compressThreshold, after every operation
\* stack.length <= compressThreshold + 1, and a compaction leaves
\* stack.length <= compressThreshold, so that the push that follows it does
\* not compact again.
C33_CompactionLeavesRoom ==
  /\ keepCount <= compressThreshold => LengthBound
  /\ \A p \in CompactionSteps :
       (keepCount <= compressThreshold /\ Len(p.stack) > compressThreshold) =>
         LET q == compressHistory(p)
         IN /\ Len(q.stack) <= compressThreshold
            /\ \A S \in Collections(document), desc \in Descs :
                 PushAppends(q, S) =>
                   pushSnapshot(q, S, desc) = PushAppend(q, S, desc)

\* the number of diff records rebuildFullSnapshot replays for the cursor:
\* those after the nearest snapshot record at or before it
ReplayLength(stk, idx) == idx - SnapshotIndexAtOrBefore(stk, idx)

\* C34: there is a snapshot record at or before the cursor, and the number of
\* diff records between the nearest one and the cursor never exceeds
\* compressThreshold.
C34_ReplayLengthBounded ==
  index >= 0 =>
    /\ SnapshotIndexAtOrBefore(stack, index) >= 0
    /\ ReplayLength(stack, index) <= compressThreshold
    /\ \A i \in (SnapshotIndexAtOrBefore(stack, index) + 1)..index :
         ~isSnapshot(At(stack, i))

\* the bound is met: compressThreshold diff records are replayed
C34_Witness ==
  /\ index >= 0
  /\ SnapshotIndexAtOrBefore(stack, index) >= 0
  /\ ReplayLength(stack, index) = compressThreshold
  /\ getCurrent(St) = Some(JsonArr(rebuildFullSnapshot(St)))

\* C35: whenever pushSnapshot or endBatch calls compressHistory the cursor is
\* on the last record, index = stack.length - 1; so it is never inside the
\* records that are merged (0 .. removeCount - 1) and the adjusted index is
\* never below 0.
C35_CompactionCursorAtEnd ==
  \A p \in CompactionSteps :
    Len(p.stack) > compressThreshold =>
      LET removeCount == Len(p.stack) - keepCount
          q == compressHistory(p)
      IN /\ p.index = Len(p.stack) - 1
         /\ p.index >= removeCount
         /\ q.index = p.index - (removeCount - 1)
         /\ q.index >= 0

\* the cursor is not on the last record, and the push from here truncates,
\* appends and compresses
C35_Witness ==
  /\ index >= 0
  /\ index < Len(stack) - 1
  /\ \E S \in Collections(document), desc \in Descs :
       LET p == PushAppend(St, S, desc)
       IN /\ PushAppends(St, S)
          /\ Len(p.stack) > compressThreshold
          /\ p.index = Len(p.stack) - 1
          /\ pushSnapshot(St, S, desc) = compressHistory(p)
          /\ pushSnapshot(St, S, desc).index >= 0

\* the indices of the snapshot records of the log
SnapshotIndices(stk) == {i \in 0..(Len(stk) - 1) : isSnapshot(At(stk, i))}

C37_CanUndoRedoAgree ==
  \A elements \in Collections(document) :
    /\ canUndo(St) <=> ~IsNull(HistoryService_undo(St, elements).result)
    /\ canRedo(St) <=> ~IsNull(HistoryService_redo(St, elements).result)
    /\ canUndo(St) <=> ~IsNull(undo(St).result)
    /\ canRedo(St) <=> ~IsNull(redo(St).result)

\* the cursor is on the first of several records: nothing to undo, undo()
\* returns null; something to redo, redo() returns a result
C37_Witness ==
  /\ index = 0
  /\ Len(stack) > 1
  /\ ~canUndo(St) /\ IsNull(undo(St).result)
  /\ canRedo(St) /\ ~IsNull(redo(St).result)

\* ---- GroupService: createGroup and ungroup ----
\* src/src/services/elements/GroupService.ts.  The element store the service
\* calls (stores/elements) is outside the sources at hand: its beginBatch
\* and endBatch are taken to be those of the history store, and each of its
\* mutating calls (addGroup, updateElements, removeElement) to push the
\* collection it leaves; selectElement and saveToLocal leave the history
\* alone.

elementsStore_beginBatch(s) == beginBatch(s)
elementsStore_endBatch(s) == endBatch(s)

\* the calls inside the try block, in order; snap is the place of the
\* collection a mutating call pushes, 0 for a call that pushes nothing
createGroupBody ==
  <<[call |-> "addGroup", snap |-> 1], [call |-> "updateElements", snap |-> 2],
    [call |-> "selectElement", snap |-> 0], [call |-> "saveToLocal", snap |-> 0]>>
ungroupBody(hasChildren) ==
  (IF hasChildren THEN <<[call |-> "updateElements", snap |-> 1]>> ELSE <<>>)
    \o <<[call |-> "removeElement", snap |-> 2],
         [call |-> "saveToLocal", snap |-> 0]>>

\* one way through a call of the service: kind names the branch taken before
\* the batch, throwAt the call of the try block that throws (0: none),
\* afterPush whether the throwing call had pushed its collection, snaps the
\* collections the mutating calls leave
EarlyPath(kind) ==
  [kind |-> kind, throwAt |-> 0, afterPush |-> FALSE, snaps |-> <<<<>>, <<>>>>]
RunPaths(kind, body, doc) ==
  {[kind |-> kind, throwAt |-> n, afterPush |-> a, snaps |-> <<S1, S2>>] :
     n \in 0..Len(body), a \in BOOLEAN,
     S1 \in Collections(doc), S2 \in Collections(doc)}

\* a call of the element store
StoreCall(s, c, snaps) ==
  IF c.snap > 0 THEN pushSnapshot(s, snaps[c.snap], CHOOSE d \in Descs : TRUE)
  ELSE s

RECURSIVE RunCalls(_, _, _, _)
\* the first n calls of the body, each run to its end
RunCalls(s, body, snaps, n) ==
  IF n = 0 THEN s
  ELSE StoreCall(RunCalls(s, body, snaps, n - 1), body[n], snaps)

\* TRUE when the path is one the body can take
PathOf(body, path) ==
  /\ path.throwAt <= Len(body)
  /\ path.afterPush => (path.throwAt > 0 /\ body[path.throwAt].snap > 0)

\* the try block: the calls up to the one that throws, which has pushed its
\* collection or not
RunTry(s, body, path) ==
  LET done == IF path.throwAt = 0 THEN Len(body)
              ELSE IF path.afterPush THEN path.throwAt
              ELSE path.throwAt - 1
  IN RunCalls(s, body, path.snaps, done)

\* createGroup with a fault: endBatch is at the end of the try block, not in
\* a finally block
createGroup_noFinally(s, path) ==
  IF path.kind = "tooFew" \/ path.kind = "noBBox"
    THEN [st |-> s, calls |-> <<>>, thrown |-> FALSE]
  ELSE
    LET begun == elementsStore_beginBatch(s)
        tried == RunTry(begun, createGroupBody, path)
        thrown == path.throwAt > 0
    IN IF thrown THEN [st |-> tried, calls |-> <<"beginBatch">>, thrown |-> TRUE]
       ELSE [st |-> elementsStore_endBatch(tried),
             calls |-> <<"beginBatch", "endBatch">>, thrown |-> FALSE]

\* GroupService.createGroup: the store it leaves, the batch calls it made,
\* whether it ended in an exception
createGroup(s, path) ==
  IF path.kind = "tooFew" \/ path.kind = "noBBox"
    THEN [st |-> s, calls |-> <<>>, thrown |-> FALSE]
  ELSE
    LET begun == elementsStore_beginBatch(s)
        tried == RunTry(begun, createGroupBody, path)
    IN [st |-> elementsStore_endBatch(tried),
        calls |-> <<"beginBatch", "endBatch">>, thrown |-> path.throwAt > 0]

\* GroupService.ungroup
ungroup(s, path) ==
  IF path.kind = "notGroup"
    THEN [st |-> s, calls |-> <<>>, thrown |-> FALSE]
  ELSE
    LET begun == elementsStore_beginBatch(s)
        tried == RunTry(begun, ungroupBody(path.kind = "children"), path)
    IN [st |-> elementsStore_endBatch(tried),
        calls |-> <<"beginBatch", "endBatch">>, thrown |-> path.throwAt > 0]

CreateGroupPaths ==
  {EarlyPath("tooFew"), EarlyPath("noBBox")}
    \cup {p \in RunPaths("run", createGroupBody, document) :
            PathOf(createGroupBody, p)}
UngroupPaths ==
  {EarlyPath("notGroup")}
    \cup {p \in RunPaths("children", ungroupBody(TRUE), document) :
            PathOf(ungroupBody(TRUE), p)}
    \cup {p \in RunPaths("noChildren", ungroupBody(FALSE), document) :
            PathOf(ungroupBody(FALSE), p)}

CreateGroup == \E path \in CreateGroupPaths : Becomes(createGroup(St, path).st)
Ungroup == \E path \in UngroupPaths : Becomes(ungroup(St, path).st)

\* an editing session in which the element collection changes by grouping
\* and ungrouping only, inside or outside a batch of the caller
NextGroup == CreateGroup \/ Ungroup \/ BeginBatch \/ EndBatch
SpecGroup == Init /\ [][NextGroup]_vars

\* what a call of the service has to leave, s the store before it, r what
\* the call gave and early whether it returned before the batch
BatchPaired(s, r, early) ==
  /\ early => (r.calls = <<>> /\ r.st = s /\ ~r.thrown)
  /\ ~early => r.calls = <<"beginBatch", "endBatch">>
  /\ r.st.batchDepth = s.batchDepth

====
